---- MODULE Spec2Model ----
(***************************************************************************)
(* Model of bufio::Writer (src/src/writer.rs): an io::Write implementation *)
(* over a caller supplied, possibly uninitialized slice of memory.         *)
(*                                                                         *)
(* Program state: buffer (the borrowed slice of MaybeUninit<u8> cells) and *)
(* written (the usize cursor).  The remaining variables record the last    *)
(* call, its argument and what it returned, so that the contract of each   *)
(* method can be stated over states.                                       *)
(***************************************************************************)
EXTENDS Integers, Sequences, FiniteSets, TLC

\* ---------------------------------------------------------------- bounds
MaxCap == 3      \* largest buffer length explored
MaxData == 3     \* longest argument of write explored
NumBytes == 2    \* number of distinct byte values explored

\* ------------------------------------------------------------ value sets
\* An uninitialized MaybeUninit<u8> cell.
Uninit == 0
\* u8 values (a bounded sample of them).
Byte == 1..NumBytes
\* One cell of the buffer: MaybeUninit<u8>.
Cell == Byte \cup {Uninit}

\* All sequences over S of length 0..n.
SeqsUpTo(S, n) == UNION {[1..k -> S] : k \in 0..n}
\* The buffers a caller can hand to new(): any length, any cell contents.
Buffers == SeqsUpTo(Cell, MaxCap)
\* The byte slices a caller can hand to write().
Data == SeqsUpTo(Byte, MaxData)

\* io::Result values: Ok(v) and Err.
Ok(v) == [ok |-> TRUE, val |-> v]
Err == [ok |-> FALSE, val |-> 0]

VARIABLES
  buffer,       \* self.buffer: sequence of Cell (index i+1 models cell i)
  written,      \* self.written
  status,       \* "ok", "panic" (the thread panicked) or "ub"
  op,           \* the last method called
  data,         \* the argument of the last write call
  ret,          \* the io::Result returned by the last write or flush call
  view,         \* the slice returned by the last written() call
  old_written,  \* self.written when the last method was entered
  accepted,     \* the accepted prefixes of all writes since the last reset
  copied,       \* the sum of the counts write returned since the last reset
  twin          \* a second Writer, over a buffer of its own of the same
                \* length, that is handed the same calls with the same data

vars ==
  <<buffer, written, status, op, data, ret, view, old_written, accepted, copied,
    twin>>

\* self.buffer.len()
capacity == Len(buffer)

\* ------------------------------------------------------- pure operations
\* min with the comparison the wrong way round
min_as_max(a, b) == IF a >= b THEN a ELSE b

\* std::cmp::min
min(a, b) == IF a <= b THEN a ELSE b

\* new taking the buffer to be full already
new_as_full(buf) == [buffer |-> buf, written |-> Len(buf)]

\* Writer::new: Self { buffer, written: 0 }
new(buf) == [buffer |-> buf, written |-> 0]

\* Indexing a slice with the range lo..hi panics unless lo <= hi <= len.
range_ok(buf, lo, hi) == lo <= hi /\ hi <= Len(buf)

\* written() handing out the whole buffer
written_range_whole(self) == <<0, Len(self.buffer)>>

\* written() with the inclusive range 0..=self.written
written_range_inclusive(self) == <<0, self.written + 1>>

\* The range 0..self.written that written() takes of the buffer.
written_range(self) == <<0, self.written>>

\* &self.buffer[0..self.written], valid when range_ok holds.
written_slice(self) ==
  LET r == written_range(self) IN SubSeq(self.buffer, r[1] + 1, r[2])

\* Reinterpreting [MaybeUninit<u8>] as [u8]: an initialized cell reads as
\* its value, an uninitialized one as any byte at all.
assume_init(slice) ==
  {s \in [1..Len(slice) -> Byte] :
     \A i \in 1..Len(slice) : slice[i] # Uninit => s[i] = slice[i]}

\* reset that also wipes the cells
reset_wipes_buffer(self) ==
  [buffer |-> [i \in 1..Len(self.buffer) |-> Uninit], written |-> 0]

\* reset that forgets to clear the cursor
reset_keeps_written(self) == self

\* Writer::reset: self.written = 0
reset(self) == [self EXCEPT !.written = 0]

\* flush that drains the buffer
flush_drains(self) == [self EXCEPT !.written = 0]

\* Writer::flush: Ok(()) and nothing else
flush(self) == self

\* len without the clamp to the free tail
write_len_unclamped(self, d) == Len(d)

\* len computed against the whole buffer instead of the free tail
write_len_no_sub(self, d) == min(Len(d), Len(self.buffer))

\* len that always keeps one cell of the tail free
write_len_off_by_one(self, d) ==
  IF Len(self.buffer) - self.written = 0
  THEN 0
  ELSE min(Len(d), Len(self.buffer) - self.written - 1)

\* let len = min(data.len(), self.buffer.len() - self.written)
\* (evaluated only when the subtraction does not underflow)
write_len(self, d) == min(Len(d), Len(self.buffer) - self.written)

\* ptr.copy_from_nonoverlapping(data.as_ptr(), len) with ptr the start of
\* self.buffer[self.written..]; defined when both regions are in bounds.
copy_in_bounds(self, d, len) ==
  len <= Len(d) /\ self.written + len <= Len(self.buffer)

\* the copy aimed at the start of the buffer instead of at the tail
copy_to_start(self, d, len) ==
  [i \in 1..Len(self.buffer) |->
     IF i <= len THEN d[i] ELSE self.buffer[i]]

\* the copy stopping one byte short
copy_one_short(self, d, len) ==
  [i \in 1..Len(self.buffer) |->
     IF self.written < i /\ i <= self.written + len - 1
     THEN d[i - self.written]
     ELSE self.buffer[i]]

\* the copy also filling the rest of the tail with the last byte copied
copy_pads_tail(self, d, len) ==
  [i \in 1..Len(self.buffer) |->
     IF self.written < i /\ i <= self.written + len
     THEN d[i - self.written]
     ELSE IF len > 0 /\ i > self.written + len
          THEN d[len]
          ELSE self.buffer[i]]

copy_from_nonoverlapping(self, d, len) ==
  [i \in 1..Len(self.buffer) |->
     IF self.written < i /\ i <= self.written + len
     THEN d[i - self.written]
     ELSE self.buffer[i]]

\* write reporting an error when it could not accept anything
write_result_write_zero(len) == IF len = 0 THEN Err ELSE Ok(len)

\* The value write hands back: Ok(len)
write_result(len) == Ok(len)

\* ------------------------------------------------------ the second writer
\* The fields of a writer record w that make up the Writer struct.
fields(w) == [buffer |-> w.buffer, written |-> w.written]

\* A writer record right after Writer::new(buf).
twin_new(buf) ==
  [buffer |-> new(buf).buffer, written |-> new(buf).written,
   status |-> "ok", ret |-> Ok(0), view |-> <<>>]

\* The records write(d) can leave a writer record w in.
twin_write(w, d) ==
  IF w.status # "ok" THEN {w}
  ELSE IF w.written > Len(w.buffer)
  THEN {[w EXCEPT !.status = "panic", !.ret = Ok(0), !.view = <<>>]}
  ELSE LET len == write_len(fields(w), d) IN
       IF copy_in_bounds(fields(w), d, len)
       THEN {[buffer |-> copy_from_nonoverlapping(fields(w), d, len),
              written |-> w.written + len,
              status |-> "ok",
              ret |-> write_result(len),
              view |-> <<>>]}
       ELSE {[buffer |-> b,
              written |-> w.written + len,
              status |-> "ub",
              ret |-> write_result(len),
              view |-> <<>>] : b \in [1..Len(w.buffer) -> Cell]}

\* The record flush() leaves a writer record w in.
twin_flush(w) ==
  IF w.status # "ok" THEN w
  ELSE [w EXCEPT !.buffer = flush(fields(w)).buffer,
                 !.written = flush(fields(w)).written,
                 !.ret = Ok(0),
                 !.view = <<>>]

\* The record reset() leaves a writer record w in.
twin_reset(w) ==
  IF w.status # "ok" THEN w
  ELSE [w EXCEPT !.buffer = reset(fields(w)).buffer,
                 !.written = reset(fields(w)).written,
                 !.ret = Ok(0),
                 !.view = <<>>]

\* The records written() can leave a writer record w in.
twin_written(w) ==
  IF w.status # "ok" THEN {w}
  ELSE LET r == written_range(fields(w)) IN
       IF ~range_ok(w.buffer, r[1], r[2])
       THEN {[w EXCEPT !.status = "panic", !.ret = Ok(0), !.view = <<>>]}
       ELSE LET slice == written_slice(fields(w)) IN
            {[w EXCEPT !.ret = Ok(0),
                       !.view = v,
                       !.status = IF \E i \in 1..Len(slice) : slice[i] = Uninit
                                  THEN "ub" ELSE "ok"] :
               v \in assume_init(slice)}

\* --------------------------------------------------------------- actions
self == [buffer |-> buffer, written |-> written]

\* The state after Writer::new(buf), with the second writer made by
\* Writer::new(buf2).
InitWith(buf, buf2) ==
    /\ twin = twin_new(buf2)
    /\ buffer = new(buf).buffer
    /\ written = new(buf).written
    /\ status = "ok"
    /\ op = "new"
    /\ data = <<>>
    /\ ret = Ok(0)
    /\ view = <<>>
    /\ old_written = 0
    /\ accepted = <<>>
    /\ copied = 0

\* One buffer, any length and contents; the second writer is given a copy.
Init == \E buf \in Buffers : InitWith(buf, buf)

\* <Writer as io::Write>::write(data)
Write ==
  \E d \in Data :
    /\ status = "ok"
    /\ op' = "write"
    /\ data' = d
    /\ old_written' = written
    /\ view' = <<>>
    /\ twin' \in twin_write(twin, d)
    /\ IF written > Len(buffer)
       THEN \* buffer.len() - written overflows: a panic in a debug build;
            \* in a release build it wraps to a huge value, len becomes
            \* data.len() and self.buffer[self.written..] panics.
            /\ status' = "panic"
            /\ ret' = Ok(0)
            /\ UNCHANGED <<buffer, written, accepted, copied>>
       ELSE LET len == write_len(self, d) IN
            IF copy_in_bounds(self, d, len)
            THEN /\ buffer' = copy_from_nonoverlapping(self, d, len)
                 /\ written' = written + len
                 /\ ret' = write_result(len)
                 /\ accepted' = accepted \o SubSeq(d, 1, len)
                 /\ copied' = copied + len
                 /\ status' = "ok"
            ELSE \* the copy leaves one of the two regions: undefined
                 \* behaviour, the buffer may hold anything afterwards
                 /\ buffer' \in [1..Len(buffer) -> Cell]
                 /\ written' = written + len
                 /\ ret' = write_result(len)
                 /\ accepted' = accepted
                 /\ copied' = copied + len
                 /\ status' = "ub"

\* <Writer as io::Write>::flush()
Flush ==
  /\ status = "ok"
  /\ op' = "flush"
  /\ buffer' = flush(self).buffer
  /\ written' = flush(self).written
  /\ ret' = Ok(0)
  /\ old_written' = written
  /\ data' = <<>>
  /\ view' = <<>>
  /\ twin' = twin_flush(twin)
  /\ UNCHANGED <<status, accepted, copied>>

\* Writer::reset()
Reset ==
  /\ status = "ok"
  /\ op' = "reset"
  /\ buffer' = reset(self).buffer
  /\ written' = reset(self).written
  /\ ret' = Ok(0)
  /\ old_written' = written
  /\ data' = <<>>
  /\ view' = <<>>
  /\ accepted' = <<>>
  /\ copied' = 0
  /\ twin' = twin_reset(twin)
  /\ UNCHANGED status

\* Writer::written()
Written ==
  /\ status = "ok"
  /\ op' = "written"
  /\ old_written' = written
  /\ data' = <<>>
  /\ ret' = Ok(0)
  /\ twin' \in twin_written(twin)
  /\ UNCHANGED <<buffer, written, accepted, copied>>
  /\ LET r == written_range(self) IN
     IF ~range_ok(buffer, r[1], r[2])
     THEN /\ status' = "panic"
          /\ view' = <<>>
     ELSE LET slice == written_slice(self) IN
          /\ view' \in assume_init(slice)
          /\ status' = IF \E i \in 1..Len(slice) : slice[i] = Uninit
                       THEN "ub" ELSE "ok"

Next == Write \/ Flush \/ Reset \/ Written

Spec == Init /\ [][Next]_vars

\* The writer of tests::stack_writing: every cell of the buffer starts out
\* uninitialized.
InitUninit == Init /\ \A i \in 1..Len(buffer) : buffer[i] = Uninit

SpecUninit == InitUninit /\ [][Next]_vars

\* Two writers over buffers of the same length: one whose cells all start
\* out uninitialized, one whose cells start out with any contents.
InitPair ==
  \E buf \in Buffers, buf2 \in Buffers :
    /\ Len(buf2) = Len(buf)
    /\ \A i \in 1..Len(buf) : buf[i] = Uninit
    /\ InitWith(buf, buf2)

SpecPair == InitPair /\ [][Next]_vars

\* ---------------------------------------------------------------- claims
\* C1: in every state reachable from new(buffer) by write, reset, flush and
\* written calls, 0 <= written <= capacity.
C1_WrittenWithinCapacity ==
  /\ written \in Nat
  /\ 0 <= written
  /\ written <= capacity

\* A write has just run the cursor into the end of a non-empty buffer.
C1_Witness ==
  /\ op = "write"
  /\ capacity > 0
  /\ written = capacity
  /\ old_written < capacity
  /\ old_written + Len(data) > capacity

\* C2: write(data) returns n = min(len(data), capacity - written), advances
\* written by n and stores data[i] in buffer[old written + i] for 0 <= i < n.
C2_WriteContract ==
  op = "write" =>
    LET room == capacity - old_written
        n == IF Len(data) <= room THEN Len(data) ELSE room
    IN /\ status = "ok"
       /\ ret = Ok(n)
       /\ written = old_written + n
       /\ \A i \in 0..(n - 1) : buffer[old_written + i + 1] = data[i + 1]

\* A write into a partly filled buffer that accepted some but not all bytes.
C2_Witness ==
  /\ op = "write"
  /\ old_written > 0
  /\ ret.val > 0
  /\ ret.val < Len(data)
  /\ buffer[old_written + 1] = data[1]

\* C3: written() returns a view of length written equal to the
\* concatenation, in order, of the accepted prefixes of every write since
\* the most recent reset (or since construction).
C3_PrefixIntegrity ==
  op = "written" =>
    /\ status = "ok"
    /\ Len(view) = written
    /\ view = accepted

\* written() returned a non-empty view that ends before a cell which holds
\* a byte that is not part of it.
C3_Witness ==
  /\ op = "written"
  /\ Len(view) > 1
  /\ Len(view) < capacity
  /\ buffer[Len(view) + 1] \in Byte

\* C4: starting from a buffer whose cells are all uninitialized, every cell
\* below written has been initialized by a write, so written() never hands
\* out a cell that was never written, also after a reset and more writes.
C4_PrefixInitialized ==
  /\ \A i \in 1..written : i <= capacity /\ buffer[i] \in Byte
  /\ op = "written" =>
       /\ status = "ok"
       /\ \A i \in 1..Len(view) : view[i] = buffer[i]

\* A reset happened (a cell beyond the cursor is initialized) and the
\* writer has accepted bytes again since.
C4_Witness ==
  /\ op = "written"
  /\ written > 0
  /\ written < capacity
  /\ buffer[written + 1] \in Byte
  /\ buffer[capacity] = Uninit

\* C5: when written = capacity, write(data) returns 0 and leaves written
\* and the view of written() unchanged.
C5_Saturation ==
  [][(op' = "write" /\ written = capacity)
       => /\ status' = "ok"
          /\ ret' = Ok(0)
          /\ written' = written
          /\ written_slice(self)' = written_slice(self)]_vars

\* A non-empty write was offered to a full, non-empty buffer.
C5_Witness ==
  /\ op = "write"
  /\ capacity > 0
  /\ old_written = capacity
  /\ data # <<>>
  /\ ret = Ok(0)

\* C6: write never reports failure: it returns a success value carrying a
\* count, and a lack of room shows only as a count below len(data).
C6_WriteNeverFails ==
  op = "write" =>
    /\ status = "ok"
    /\ ret.ok
    /\ ret.val \in 0..Len(data)
    /\ ret.val < Len(data) => old_written + Len(data) > capacity

\* A non-empty write into a buffer of capacity 0.
C6_Witness ==
  /\ op = "write"
  /\ capacity = 0
  /\ data # <<>>
  /\ ret.ok
  /\ ret.val = 0

\* C7: reset() sets written to 0, written() right after it returns an empty
\* view, and a second reset changes nothing the first one left.
C7_Reset ==
  [][/\ op' = "reset" =>
          /\ status' = "ok"
          /\ written' = 0
          /\ reset(self)' = self'
     /\ (op = "reset" /\ op' = "written") =>
          /\ status' = "ok"
          /\ view' = <<>>]_vars

\* reset() was called on a writer holding bytes.
C7_Witness ==
  /\ op = "reset"
  /\ old_written > 0
  /\ written = 0

\* C8: flush() succeeds and leaves written, capacity and every cell as
\* they were.
C8_FlushNoOp ==
  [][op' = "flush"
       => /\ status' = "ok"
          /\ ret'.ok
          /\ written' = written
          /\ Len(buffer') = Len(buffer)
          /\ buffer' = buffer
          /\ written_slice(self)' = written_slice(self)]_vars

\* flush() was called on a writer holding bytes.
C8_Witness ==
  /\ op = "flush"
  /\ written > 0
  /\ ret.ok

\* C9: a write that returns less than len(data) leaves written = capacity;
\* write returns 0 only for empty data or an already full writer.
C9_ShortWriteMeansFull ==
  op = "write" =>
    /\ ret.val < Len(data) => written = capacity
    /\ ret.val = 0 => (data = <<>> \/ old_written = capacity)

\* A short write that accepted something.
C9_Witness ==
  /\ op = "write"
  /\ ret.val > 0
  /\ ret.val < Len(data)
  /\ written = capacity

\* C10: the view of written() is no longer than capacity and no longer
\* than the sum of the counts returned by write since the last reset.
C10_NoOverRead ==
  op = "written" =>
    /\ Len(view) <= capacity
    /\ Len(view) <= copied

\* written() was called with room left in the buffer after some writes.
C10_Witness ==
  /\ op = "written"
  /\ copied > 0
  /\ Len(view) = copied
  /\ Len(view) < capacity

\* C11: write(data) returning n changes only the cells old written ..
\* old written + n - 1; every cell below and every cell from old written + n
\* on keeps its value or its uninitialized status, and capacity stays.
C11_WriteFrame ==
  [][op' = "write"
       => /\ status' = "ok"
          /\ Len(buffer') = Len(buffer)
          /\ \A i \in 1..Len(buffer) :
               (i <= written \/ i > written + ret'.val)
                 => buffer'[i] = buffer[i]]_vars

\* A write landed between a kept prefix and a cell of the tail that is
\* still uninitialized.
C11_Witness ==
  /\ op = "write"
  /\ old_written > 0
  /\ ret.val > 0
  /\ written < capacity
  /\ buffer[written + 1] = Uninit

\* C12: reset() changes only written, every cell and capacity stay; after
\* it and writes accepting k bytes, written() has length k and holds the
\* accepted bytes, none of the stale ones in the cells from k on.
C12_ResetFrame ==
  [][/\ op' = "reset" =>
          /\ buffer' = buffer
          /\ Len(buffer') = Len(buffer)
     /\ op' = "written" =>
          /\ Len(view') = copied
          /\ view' = SubSeq(buffer, 1, copied)
          /\ view' = accepted]_vars

\* written() was called after a reset and a write: the cell right after
\* the view still holds a byte of the earlier contents.
C12_Witness ==
  /\ op = "written"
  /\ copied > 0
  /\ Len(view) = copied
  /\ copied < capacity
  /\ buffer[copied + 1] \in Byte
  /\ view[copied] # buffer[copied + 1]

\* C13: written never decreases in a step other than reset; flush and
\* written() leave it as it is.
C13_Monotone ==
  [][/\ op' # "reset" => written' >= written
     /\ op' \in {"flush", "written"} => written' = written]_vars

\* A write advanced a cursor that was already beyond 0.
C13_Witness ==
  /\ op = "write"
  /\ old_written > 0
  /\ written > old_written

\* C14: right after new(buffer), for any length including 0 and any cell
\* contents, written = 0 and written() is empty; with capacity 0 every
\* write returns 0 without failing and written() stays empty.
C14_NewAndEmptyBuffer ==
  /\ op = "new" =>
       /\ status = "ok"
       /\ written = 0
       /\ range_ok(buffer, written_range(self)[1], written_range(self)[2])
       /\ assume_init(written_slice(self)) = {<<>>}
  /\ capacity = 0 =>
       /\ status = "ok"
       /\ written = 0
       /\ op = "write" => ret = Ok(0)
       /\ op = "written" => view = <<>>

\* written() was called on a writer over an empty buffer.
C14_Witness ==
  /\ capacity = 0
  /\ op = "written"
  /\ view = <<>>
  /\ status = "ok"

\* C15: no operation panics: in write, capacity - written does not
\* underflow, written <= capacity, the copied length fits the tail and
\* data, written + len <= capacity; in written() 0..written is in range.
C15_NoPanic ==
  /\ status = "ok"
  /\ capacity - written >= 0
  /\ range_ok(buffer, written, capacity)
  /\ range_ok(buffer, written_range(self)[1], written_range(self)[2])
  /\ \A d \in Data :
       LET len == write_len(self, d) IN
         /\ len >= 0
         /\ len <= Len(d)
         /\ len <= capacity - written
         /\ written + len <= capacity
         /\ copy_in_bounds(self, d, len)

\* written() took the range 0..written with written at the very end of a
\* non-empty buffer.
C15_Witness ==
  /\ op = "written"
  /\ capacity > 0
  /\ written = capacity
  /\ Len(view) = capacity

\* C16: two writers over buffers of equal capacity and different initial
\* contents, given the same calls with the same data, return the same
\* count from every write and the same view from every written().
C16_InitialContentsUnobservable ==
  /\ twin.status = status
  /\ Len(twin.buffer) = capacity
  /\ op = "write" => twin.ret = ret
  /\ op = "flush" => twin.ret = ret
  /\ op = "written" => twin.view = view

\* Both writers returned the same non-empty view although their buffers
\* still differ in a cell.
C16_Witness ==
  /\ op = "written"
  /\ view # <<>>
  /\ twin.view = view
  /\ twin.buffer # buffer
  /\ copied > 0

====
